---- MODULE Spec2Model ----
(***************************************************************************)
(* Model of sg::ecs::Manager (SgEcs, src/Ecs.hpp) instantiated with the    *)
(* settings of src/Main.cpp: three component kinds, two signatures.        *)
(*                                                                         *)
(* A std::bitset is modelled as the set of its set bit indices, a          *)
(* std::vector as a function on 0 .. size-1, a component reference as the  *)
(* pair <<kind, dataIndex>> of the array and the index it points into.     *)
(***************************************************************************)
EXTENDS Integers, Sequences, FiniteSets, TLC

VARIABLES
    m_entities,                 \* std::vector<Entity>
    m_capacity,                 \* std::size_t
    m_size,                     \* std::size_t
    m_sizeNext,                 \* std::size_t
    m_signatureBitsetsStorage,  \* one Bitset per signature id
    m_componentStorage,         \* one std::vector per component kind
    owned,                      \* history: <<slot, kind, value>> the slot's occupant attached
    created,                    \* history: whether neither Kill nor Clear was called
                                \* so far, and if so the number of CreateIndex calls
    sinceRefresh,               \* history: the number of CreateIndex calls since the
                                \* last Refresh or Clear, or since construction
    last                        \* history: the call that produced this state

vars == <<m_entities, m_capacity, m_size, m_sizeNext, m_signatureBitsetsStorage,
          m_componentStorage, owned, created, sinceRefresh, last>>

-----------------------------------------------------------------------------
(* Bounds of the model *)

\* CreateIndex is called only while m_sizeNext is below this (specification Spec).
MaxEntities == 3

\* Component values are 0 .. MaxValue; 0 is the value-initialised component.
MaxValue == 1

\* Specification SpecSig: CreateIndex is called only while m_sizeNext is below this.
MaxSigEntities == 2

\* Specification SpecCalls: CreateIndex is called only while m_sizeNext is
\* below this, and calls are made with the handles 0 .. MaxCallEntities.
MaxCallEntities == 2

\* Specification SpecGrow: CreateIndex is called only while m_sizeNext is below
\* DEFAULT_ENTITY_CAPACITY + MaxGrown.
MaxGrown == 1

\* Specification SpecGrow: calls are made with the handles at most this far
\* below DEFAULT_ENTITY_CAPACITY.
Window == 1

-----------------------------------------------------------------------------
(* Constants and settings *)

DEFAULT_ENTITY_CAPACITY == 100

ComponentList == <<"Health", "Circle", "Input">>

SignatureVelocity == <<"Circle", "Input">>

SignatureLife == <<"Health">>

SignatureList == <<SignatureVelocity, SignatureLife>>

Components == {ComponentList[i] : i \in 1..Len(ComponentList)}

Signatures == {SignatureList[i] : i \in 1..Len(SignatureList)}

Values == 0..MaxValue

\* boost::mpl::size<ComponentList>
ComponentCount == Len(ComponentList)

\* boost::mpl::size<SignatureList>
SignatureCount == Len(SignatureList)

\* distance(begin, find(list, x)): the 0-based position of the first x
Distance(list, x) ==
    (CHOOSE i \in 1..Len(list) :
        list[i] = x /\ \A j \in 1..(i - 1) : list[j] # x) - 1

GetComponentId(TComponent) == Distance(ComponentList, TComponent)

\* GetComponentBit, were it to count the bits from the other end
GetComponentBitReversed(TComponent) == ComponentCount - 1 - GetComponentId(TComponent)

GetComponentBit(TComponent) == GetComponentId(TComponent)

GetSignatureId(TSignature) == Distance(SignatureList, TSignature)

\* boost::mpl::for_each over the signature's kinds, setting one bit per kind
RECURSIVE InitSignatureBitsetFrom(_, _, _)
InitSignatureBitsetFrom(TSignature, i, bitset) ==
    IF i > Len(TSignature) THEN bitset
    ELSE InitSignatureBitsetFrom(TSignature, i + 1,
                                 bitset \cup {GetComponentBit(TSignature[i])})

InitSignatureBitset(TSignature) == InitSignatureBitsetFrom(TSignature, 1, {})

\* SignatureBitsetsStorage(): the tuple of bitsets, indexed by signature id
SignatureBitsetsStorage ==
    [id \in 0..(SignatureCount - 1) |->
        InitSignatureBitset(CHOOSE s \in Signatures : GetSignatureId(s) = id)]

GetSignatureBitset(storage, TSignature) == storage[GetSignatureId(TSignature)]

\* AddTo, were it to put each kind behind the ones folded so far
AddToBack(seq, T) == seq \o <<T>>

\* Rename<TList, TNewName>: mpl::fold with AddTo, which puts each kind in
\* front of the ones folded so far
AddTo(seq, T) == <<T>> \o seq

RECURSIVE RenameFrom(_, _, _)
RenameFrom(TList, i, seq) ==
    IF i > Len(TList) THEN seq ELSE RenameFrom(TList, i + 1, AddTo(seq, TList[i]))

Rename(TList) == RenameFrom(TList, 1, <<>>)

-----------------------------------------------------------------------------
(* The manager as a value: the operations below are functions on it *)

\* Entity{}: dataIndex 0, empty bitset, not alive
Entity == [dataIndex |-> 0, bitset |-> {}, alive |-> FALSE]

\* the Manager's members before the constructor body runs
EmptyManager ==
    [entities |-> [i \in {} |-> Entity],
     capacity |-> 0,
     size |-> 0,
     sizeNext |-> 0,
     comp |-> [c \in Components |-> [i \in {} |-> 0]]]

\* ComponentStorage::GrowTo, were it to build the arrays anew
ComponentStorageGrowToFresh(comp, newCapacity) ==
    [c \in Components |-> [i \in 0..(newCapacity - 1) |-> 0]]

\* ComponentStorage::GrowTo: vector::resize keeps the old elements and
\* value-initialises the new ones
ComponentStorageGrowTo(comp, newCapacity) ==
    [c \in Components |->
        [i \in 0..(newCapacity - 1) |->
            IF i \in DOMAIN comp[c] THEN comp[c][i] ELSE 0]]

\* ComponentStorage::GetComponent
StorageGetComponent(comp, TComponent, dataIndex) == comp[TComponent][dataIndex]

\* GrowTo, were the new records left with the dataIndex of a default Entity
GrowToDefaultEntities(m, newCapacity) ==
    [m EXCEPT
        !.entities = [i \in 0..(newCapacity - 1) |->
                        IF i < m.capacity
                        THEN m.entities[i]
                        ELSE [dataIndex |-> 0, bitset |-> {}, alive |-> FALSE]],
        !.comp = ComponentStorageGrowTo(m.comp, newCapacity),
        !.capacity = newCapacity]

\* Manager::GrowTo
GrowTo(m, newCapacity) ==
    [m EXCEPT
        !.entities = [i \in 0..(newCapacity - 1) |->
                        IF i < m.capacity
                        THEN m.entities[i]
                        ELSE [dataIndex |-> i, bitset |-> {}, alive |-> FALSE]],
        !.comp = ComponentStorageGrowTo(m.comp, newCapacity),
        !.capacity = newCapacity]

\* GrowIfNeeded, were it to double the capacity
GrowIfNeededDoubles(m) ==
    IF m.capacity > m.sizeNext THEN m ELSE GrowTo(m, m.capacity * 2)

\* Manager::GrowIfNeeded
GrowIfNeeded(m) ==
    IF m.capacity > m.sizeNext THEN m ELSE GrowTo(m, (m.capacity + 10) * 2)

\* Manager::Manager
Manager == GrowTo(EmptyManager, DEFAULT_ENTITY_CAPACITY)

\* Manager::GetEntity; its range assertion is the callers' guard ValidIndex
GetEntity(m, entityIndex) == m.entities[entityIndex]

\* the range assertion, were it to compare with m_capacity
ValidIndexBelowCapacity(m, entityIndex) == m.capacity > entityIndex

\* assert(m_sizeNext > entityIndex)
ValidIndex(m, entityIndex) == m.sizeNext > entityIndex

IsAlive(m, entityIndex) == GetEntity(m, entityIndex).alive

\* Kill, were it to reset the bitset of the entity as well
KillClearsBitset(m, entityIndex) ==
    [m EXCEPT !.entities[entityIndex].alive = FALSE,
              !.entities[entityIndex].bitset = {}]

\* Kill, were it to take the entity off the count at once
KillDecrementsSize(m, entityIndex) ==
    [m EXCEPT !.entities[entityIndex].alive = FALSE, !.size = @ - 1]

\* Manager::Kill
Kill(m, entityIndex) ==
    [m EXCEPT !.entities[entityIndex].alive = FALSE]

\* CreateIndex without entity.bitset.reset()
CreateIndexKeepsBitset(m) ==
    LET g == GrowIfNeeded(m)
        freeIndex == g.sizeNext
    IN  [m |-> [g EXCEPT !.sizeNext = freeIndex + 1,
                         !.entities[freeIndex].alive = TRUE],
         freeIndex |-> freeIndex]

\* CreateIndex, were it to return m_sizeNext after the increment
CreateIndexReturnsSizeNext(m) ==
    LET g == GrowIfNeeded(m)
        freeIndex == g.sizeNext
    IN  [m |-> [g EXCEPT !.sizeNext = freeIndex + 1,
                         !.entities[freeIndex].alive = TRUE,
                         !.entities[freeIndex].bitset = {}],
         freeIndex |-> freeIndex + 1]

\* Manager::CreateIndex: the manager after the call and the returned index
CreateIndex(m) ==
    LET g == GrowIfNeeded(m)
        freeIndex == g.sizeNext
    IN  [m |-> [g EXCEPT !.sizeNext = freeIndex + 1,
                         !.entities[freeIndex].alive = TRUE,
                         !.entities[freeIndex].bitset = {}],
         freeIndex |-> freeIndex]

\* Clear, were it to leave each dataIndex as it is
ClearKeepsDataIndex(m) ==
    [m EXCEPT
        !.entities = [i \in 0..(m.capacity - 1) |->
                        [dataIndex |-> m.entities[i].dataIndex,
                         bitset |-> {}, alive |-> FALSE]],
        !.size = 0,
        !.sizeNext = 0]

\* Clear, were its loop to stop at m_sizeNext
ClearBelowSizeNext(m) ==
    [m EXCEPT
        !.entities = [i \in 0..(m.capacity - 1) |->
                        IF i < m.sizeNext
                        THEN [dataIndex |-> i, bitset |-> {}, alive |-> FALSE]
                        ELSE m.entities[i]],
        !.size = 0,
        !.sizeNext = 0]

\* Manager::Clear
Clear(m) ==
    [m EXCEPT
        !.entities = [i \in 0..(m.capacity - 1) |->
                        [dataIndex |-> i, bitset |-> {}, alive |-> FALSE]],
        !.size = 0,
        !.sizeNext = 0]

\* a swap of the alive flags and bitsets that leaves each dataIndex in place
SwapEntitiesKeepsDataIndex(entities, iA, iD) ==
    [entities EXCEPT ![iA] = [entities[iD] EXCEPT !.dataIndex = entities[iA].dataIndex],
                     ![iD] = [entities[iA] EXCEPT !.dataIndex = entities[iD].dataIndex]]

\* std::swap(m_entities[iA], m_entities[iD])
SwapEntities(entities, iA, iD) ==
    [entities EXCEPT ![iA] = entities[iD], ![iD] = entities[iA]]

\* the largest EntityIndex (std::size_t). The model's integers are 32 bits
\* wide, so it stands as the largest of them: what matters is that it is
\* above every capacity and that 0 - 1 and SIZE_MAX + 1 wrap around.
SIZE_MAX == 2147483647

\* --i and ++i on an EntityIndex
Decrement(i) == IF i = 0 THEN SIZE_MAX ELSE i - 1

Increment(i) == IF i = SIZE_MAX THEN 0 ELSE i + 1

\* A read outside the vector is undefined behaviour: the loops below are cut
\* there and return, leaving the cursor at the index they read.

\* the first inner loop, were it to stop at iA
RECURSIVE FindDeadStopsAtCursor(_, _, _)
FindDeadStopsAtCursor(entities, iD, iA) ==
    IF ~(iD >= iA) /\ iD \in DOMAIN entities /\ entities[iD].alive
    THEN FindDeadStopsAtCursor(entities, Increment(iD), iA)
    ELSE [return |-> iD >= iA \/ iD \notin DOMAIN entities,
          iD |-> iD,
          read |-> ~(iD >= iA)]

\* the first inner loop, were it to break at an alive record
RECURSIVE FindDeadFindsAlive(_, _, _)
FindDeadFindsAlive(entities, iD, iA) ==
    IF ~(iD > iA) /\ iD \in DOMAIN entities /\ ~entities[iD].alive
    THEN FindDeadFindsAlive(entities, Increment(iD), iA)
    ELSE [return |-> iD > iA \/ iD \notin DOMAIN entities,
          iD |-> iD,
          read |-> ~(iD > iA)]

\* the first inner loop, which goes on while iD has not passed iA and the
\* record at iD is alive: the result is iD, whether the function returns and
\* whether the record at iD was read
RECURSIVE FindDead(_, _, _)
FindDead(entities, iD, iA) ==
    IF ~(iD > iA) /\ iD \in DOMAIN entities /\ entities[iD].alive
    THEN FindDead(entities, Increment(iD), iA)
    ELSE [return |-> iD > iA \/ iD \notin DOMAIN entities,
          iD |-> iD,
          read |-> ~(iD > iA)]

\* the second inner loop, which goes on while the record at iA is dead and
\* iA is above iD: the result is iA and whether the function returns
RECURSIVE FindAlive(_, _, _)
FindAlive(entities, iD, iA) ==
    IF iA \in DOMAIN entities /\ ~entities[iA].alive /\ ~(iA <= iD)
    THEN FindAlive(entities, iD, Decrement(iA))
    ELSE [return |-> iA \notin DOMAIN entities \/ ~entities[iA].alive,
          iA |-> iA]

\* what one pass of the two inner loops, started at iD and iA and ended at d
\* and a, adds to the run: the cursor moves (++iD, --iA) and the indices read
PassMoves(iD, iA, d, a) == (d.iD - iD) + (iA - a.iA)

\* the positions of m_entities[iD] read by the first inner loop started at iD
DeadReads(iD, d) == IF d.read THEN iD..d.iD ELSE iD..(d.iD - 1)

\* the positions of m_entities[iA] read by the second inner loop started at iA
AliveReads(iA, a) == {iA} \cup (a.iA..(iA - 1))

PassReads(iD, iA, d, a) == DeadReads(iD, d) \cup AliveReads(iA, a)

\* the while (true) loop, were it to look for the next dead record from
\* position 0 again after a swap
RECURSIVE ArrangeLoopRescans(_, _, _)
ArrangeLoopRescans(entities, iD, iA) ==
    LET d == FindDead(entities, iD, iA)
    IN  IF d.return
        THEN [entities |-> entities, result |-> d.iD, moves |-> d.iD - iD,
              reads |-> DeadReads(iD, d), swaps |-> <<>>]
        ELSE LET a == FindAlive(entities, d.iD, iA)
             IN  IF a.return
                 THEN [entities |-> entities, result |-> d.iD,
                       moves |-> PassMoves(iD, iA, d, a),
                       reads |-> PassReads(iD, iA, d, a), swaps |-> <<>>]
                 ELSE LET rest == ArrangeLoopRescans(SwapEntities(entities, a.iA, d.iD),
                                                     0, Decrement(a.iA))
                      IN  [rest EXCEPT
                            !.moves = @ + PassMoves(iD, iA, d, a) + 1,
                            !.reads = @ \cup PassReads(iD, iA, d, a),
                            !.swaps = <<[iD |-> d.iD, iA |-> a.iA,
                                         deadAtD |-> ~entities[d.iD].alive,
                                         aliveAtA |-> entities[a.iA].alive]>> \o @]

\* the while (true) loop from the cursors iD, iA: the table and the result,
\* the cursor moves and the reads of the whole run, and for each swap the
\* cursors and what the two assertions before it test
RECURSIVE ArrangeLoop(_, _, _)
ArrangeLoop(entities, iD, iA) ==
    LET d == FindDead(entities, iD, iA)
    IN  IF d.return
        THEN [entities |-> entities, result |-> d.iD, moves |-> d.iD - iD,
              reads |-> DeadReads(iD, d), swaps |-> <<>>]
        ELSE LET a == FindAlive(entities, d.iD, iA)
             IN  IF a.return
                 THEN [entities |-> entities, result |-> d.iD,
                       moves |-> PassMoves(iD, iA, d, a),
                       reads |-> PassReads(iD, iA, d, a), swaps |-> <<>>]
                 ELSE LET rest == ArrangeLoop(SwapEntities(entities, a.iA, d.iD),
                                              Increment(d.iD), Decrement(a.iA))
                      IN  [rest EXCEPT
                            !.moves = @ + PassMoves(iD, iA, d, a) + 2,
                            !.reads = @ \cup PassReads(iD, iA, d, a),
                            !.swaps = <<[iD |-> d.iD, iA |-> a.iA,
                                         deadAtD |-> ~entities[d.iD].alive,
                                         aliveAtA |-> entities[a.iA].alive]>> \o @]

\* Manager::ArrangeAliveEntitiesToLeft: iD{ 0 }, iA{ m_sizeNext - 1 }
ArrangeAliveEntitiesToLeft(m) == ArrangeLoop(m.entities, 0, Decrement(m.sizeNext))

\* Refresh, were it to count the alive records without moving them
RefreshCountsWithoutMoving(m) ==
    LET alive == Cardinality({p \in 0..(m.sizeNext - 1) : m.entities[p].alive})
    IN  [m EXCEPT !.size = alive, !.sizeNext = alive]

\* the calls, were Refresh to run the compaction also when m_sizeNext is 0
ArrangeCallsAlways(m) == <<ArrangeAliveEntitiesToLeft(m)>>

\* The calls of ArrangeAliveEntitiesToLeft that Refresh makes: none after the
\* early exit on m_sizeNext == 0, one otherwise
ArrangeCalls(m) ==
    IF m.sizeNext = 0 THEN <<>> ELSE <<ArrangeAliveEntitiesToLeft(m)>>

\* Refresh, were it to set m_size to m_sizeNext before the compaction
RefreshSizeBeforeArrange(m) ==
    IF m.sizeNext = 0
    THEN [m EXCEPT !.size = 0]
    ELSE LET r == ArrangeAliveEntitiesToLeft(m)
         IN  [m EXCEPT !.entities = r.entities,
                       !.size = m.sizeNext,
                       !.sizeNext = r.result]

\* Refresh without the compaction: every record below m_sizeNext is counted
RefreshSkipsArrange(m) == [m EXCEPT !.size = m.sizeNext]

\* Refresh, were it to assign the result to m_size alone
RefreshKeepsSizeNext(m) ==
    IF m.sizeNext = 0
    THEN [m EXCEPT !.size = 0]
    ELSE LET r == ArrangeLoop(m.entities, 0, m.sizeNext - 1)
         IN  [m EXCEPT !.entities = r.entities, !.size = r.result]

\* Refresh, were it to exit early whenever nothing was created since the
\* Refresh before (m_sizeNext still equal to m_size)
RefreshExitsWhenNoneCreated(m) ==
    IF m.sizeNext = m.size
    THEN [m EXCEPT !.size = 0]
    ELSE LET r == ArrangeLoop(m.entities, 0, m.sizeNext - 1)
         IN  [m EXCEPT !.entities = r.entities,
                       !.size = r.result,
                       !.sizeNext = r.result]

\* Manager::Refresh
Refresh(m) ==
    LET calls == ArrangeCalls(m)
    IN  IF Len(calls) = 0
        THEN [m EXCEPT !.size = 0]
        ELSE LET r == calls[1]
             IN  [m EXCEPT !.entities = r.entities,
                           !.size = r.result,
                           !.sizeNext = r.result]

\* AddComponent, were it to use the entity index as the slot
AddComponentAtIndex(m, TComponent, entityIndex, value) ==
    [m EXCEPT
        !.entities[entityIndex].bitset = @ \cup {GetComponentBit(TComponent)},
        !.comp[TComponent][entityIndex] = value]

\* Manager::AddComponent: sets the bit, constructs the value at the slot
AddComponent(m, TComponent, entityIndex, value) ==
    LET entity == GetEntity(m, entityIndex)
    IN  [m EXCEPT
            !.entities[entityIndex].bitset = @ \cup {GetComponentBit(TComponent)},
            !.comp[TComponent][entity.dataIndex] = value]

\* Manager::HasComponent
HasComponent(m, TComponent, entityIndex) ==
    GetComponentBit(TComponent) \in GetEntity(m, entityIndex).bitset

\* DeleteComponent, were it to reset the whole bitset
DeleteComponentResets(m, TComponent, entityIndex) ==
    [m EXCEPT !.entities[entityIndex].bitset = {}]

\* DeleteComponent, were it to mark the entity dead as well
DeleteComponentKills(m, TComponent, entityIndex) ==
    [m EXCEPT !.entities[entityIndex].bitset = @ \ {GetComponentBit(TComponent)},
              !.entities[entityIndex].alive = FALSE]

\* Manager::DeleteComponent
DeleteComponent(m, TComponent, entityIndex) ==
    [m EXCEPT !.entities[entityIndex].bitset = @ \ {GetComponentBit(TComponent)}]

\* GetComponent, were it to use the entity index as the slot
GetComponentAtIndex(m, TComponent, entityIndex) == <<TComponent, entityIndex>>

\* Manager::GetComponent: the reference it returns (HasComponent is asserted)
GetComponent(m, TComponent, entityIndex) ==
    <<TComponent, GetEntity(m, entityIndex).dataIndex>>

\* the value a component reference points at
Deref(m, ref) == StorageGetComponent(m.comp, ref[1], ref[2])

\* an assignment through a component reference
WriteRef(m, ref, value) == [m EXCEPT !.comp[ref[1]][ref[2]] = value]

\* MatchesSignature, were it to compare the two bitsets for equality
MatchesSignatureExact(m, sigs, TSignature, entityIndex) ==
    GetEntity(m, entityIndex).bitset = GetSignatureBitset(sigs, TSignature)

\* Manager::MatchesSignature:
\* (signatureBitset & entityBitset) == signatureBitset
MatchesSignature(m, sigs, TSignature, entityIndex) ==
    LET entityBitset == GetEntity(m, entityIndex).bitset
        signatureBitset == GetSignatureBitset(sigs, TSignature)
    IN  (signatureBitset \cap entityBitset) = signatureBitset

\* ExpandCallHelper::Call, were it to use the entity index as the slot
ExpandCallHelperCallAtIndex(TComponents, entityIndex, m) ==
    [entityIndex |-> entityIndex,
     components |-> [i \in 1..Len(TComponents) |-> <<TComponents[i], entityIndex>>]]

\* ExpandCallHelper<TComponents...>::Call: the callback's arguments
ExpandCallHelperCall(TComponents, entityIndex, m) ==
    LET dataIndex == GetEntity(m, entityIndex).dataIndex
    IN  [entityIndex |-> entityIndex,
         components |-> [i \in 1..Len(TComponents) |-> <<TComponents[i], dataIndex>>]]

ExpandSignatureCall(TSignature, entityIndex, m) ==
    ExpandCallHelperCall(Rename(TSignature), entityIndex, m)

\* ForEntities with the lambda of ForEntitiesMatching: the calls of the
\* callback, in the order they are made, from position index on
RECURSIVE ForEntitiesMatchingFrom(_, _, _, _)
ForEntitiesMatchingFrom(m, sigs, TSignature, index) ==
    IF ~(index < m.size) THEN <<>>
    ELSE (IF MatchesSignature(m, sigs, TSignature, index)
          THEN <<ExpandSignatureCall(TSignature, index, m)>>
          ELSE <<>>)
         \o ForEntitiesMatchingFrom(m, sigs, TSignature, index + 1)

ForEntitiesMatching(m, sigs, TSignature) ==
    ForEntitiesMatchingFrom(m, sigs, TSignature, 0)

GetEntityCount(m) == m.size

\* Manager::ForEntities: the calls of the callback, in the order they are
\* made, from position index on
RECURSIVE ForEntitiesFrom(_, _)
ForEntitiesFrom(m, index) ==
    IF ~(index < m.size) THEN <<>>
    ELSE <<[entityIndex |-> index, components |-> <<>>]>> \o ForEntitiesFrom(m, index + 1)

ForEntities(m) == ForEntitiesFrom(m, 0)

-----------------------------------------------------------------------------------------------------------------------------------------------------
(* The state machine *)

\* the manager value held in the variables
Mgr ==
    [entities |-> m_entities,
     capacity |-> m_capacity,
     size |-> m_size,
     sizeNext |-> m_sizeNext,
     comp |-> m_componentStorage]

\* the variables after a call that leaves the manager as m
Becomes(m) ==
    /\ m_entities' = m.entities
    /\ m_capacity' = m.capacity
    /\ m_size' = m.size
    /\ m_sizeNext' = m.sizeNext
    /\ m_componentStorage' = m.comp
    /\ m_signatureBitsetsStorage' = m_signatureBitsetsStorage

\* the record of a call: its name, the entity index and the component kind
\* it was made with; for CreateIndex the index it returned and whether it
\* grew the table; for Refresh m_sizeNext and the number of alive records
\* below it before the call and the number of CreateIndex calls since the
\* Refresh before; for ForEntitiesMatching the signature and the
\* calls of the callback it made; for IsAlive, HasComponent and
\* MatchesSignature the answer, for GetComponent the value read through the
\* reference; the assertion that failed in the call, if one did
Plain(op) ==
    [op |-> op, entityIndex |-> 0, component |-> "", result |-> 0,
     grew |-> FALSE, sizeNextBefore |-> 0, aliveBefore |-> 0, createdSince |-> 0,
     signature |-> <<>>, calls |-> <<>>, answer |-> FALSE, assertion |-> "",
     repeated |-> FALSE]

OnEntity(op, entityIndex) == [Plain(op) EXCEPT !.entityIndex = entityIndex]

OnComponent(op, TComponent, entityIndex) ==
    [Plain(op) EXCEPT !.entityIndex = entityIndex, !.component = TComponent]

InitOf(m, n) ==
    /\ m_entities = m.entities
    /\ m_capacity = m.capacity
    /\ m_size = m.size
    /\ m_sizeNext = m.sizeNext
    /\ m_componentStorage = m.comp
    /\ m_signatureBitsetsStorage = SignatureBitsetsStorage
    /\ owned = {}
    /\ created = [only |-> TRUE, count |-> n]
    /\ sinceRefresh = n
    /\ last = Plain("Manager")

Init == InitOf(Manager, 0)

\* the handles a call may be made with: those below m_sizeNext and not below lo
Handles(lo) == {h \in 0..(m_sizeNext - 1) : h >= lo}

\* owned without what it holds for the slots and kinds given
Disown(slots, kinds) == {o \in owned : ~(o[1] \in slots /\ o[2] \in kinds)}

CreateIndexCall(limit) ==
    /\ m_sizeNext < limit
    /\ LET r == CreateIndex(Mgr)
       IN  /\ Becomes(r.m)
           /\ owned' = Disown({r.m.entities[r.freeIndex].dataIndex}, Components)
           /\ last' = [Plain("CreateIndex") EXCEPT
                            !.result = r.freeIndex,
                            !.grew = (r.m.capacity # m_capacity)]
    /\ created' = IF created.only THEN [created EXCEPT !.count = @ + 1] ELSE created
    /\ sinceRefresh' = sinceRefresh + 1

KillCall(entityIndex) ==
    /\ ValidIndex(Mgr, entityIndex)
    /\ Becomes(Kill(Mgr, entityIndex))
    /\ created' = [only |-> FALSE, count |-> 0]
    /\ last' = OnEntity("Kill", entityIndex)
    /\ UNCHANGED <<owned, sinceRefresh>>

ClearCall ==
    /\ Becomes(Clear(Mgr))
    /\ owned' = {}
    /\ created' = [only |-> FALSE, count |-> 0]
    /\ sinceRefresh' = 0
    /\ last' = Plain("Clear")

RefreshCall ==
    /\ Becomes(Refresh(Mgr))
    /\ last' = [Plain("Refresh") EXCEPT
                    !.sizeNextBefore = m_sizeNext,
                    !.aliveBefore =
                        Cardinality({p \in 0..(m_sizeNext - 1) : m_entities[p].alive}),
                    !.createdSince = sinceRefresh,
                    !.repeated = (last.op = "Refresh")]
    /\ sinceRefresh' = 0
    /\ UNCHANGED <<owned, created>>

AddComponentCall(TComponent, entityIndex, value) ==
    /\ ValidIndex(Mgr, entityIndex)
    /\ Becomes(AddComponent(Mgr, TComponent, entityIndex, value))
    /\ owned' = Disown({m_entities[entityIndex].dataIndex}, {TComponent})
                    \cup {<<m_entities[entityIndex].dataIndex, TComponent, value>>}
    /\ last' = OnComponent("AddComponent", TComponent, entityIndex)
    /\ UNCHANGED <<created, sinceRefresh>>

DeleteComponentCall(TComponent, entityIndex) ==
    /\ ValidIndex(Mgr, entityIndex)
    /\ Becomes(DeleteComponent(Mgr, TComponent, entityIndex))
    /\ owned' = Disown({m_entities[entityIndex].dataIndex}, {TComponent})
    /\ last' = OnComponent("DeleteComponent", TComponent, entityIndex)
    /\ UNCHANGED <<created, sinceRefresh>>

\* GetComponent<TComponent>(entityIndex) = value, as Main.cpp:88-90 does
\* through the reference AddComponent returned
WriteComponentCall(TComponent, entityIndex, value) ==
    /\ ValidIndex(Mgr, entityIndex)
    /\ HasComponent(Mgr, TComponent, entityIndex)
    /\ Becomes(WriteRef(Mgr, GetComponent(Mgr, TComponent, entityIndex), value))
    /\ owned' = Disown({m_entities[entityIndex].dataIndex}, {TComponent})
                    \cup {<<m_entities[entityIndex].dataIndex, TComponent, value>>}
    /\ last' = OnComponent("WriteComponent", TComponent, entityIndex)
    /\ UNCHANGED <<created, sinceRefresh>>

\* ForEntitiesMatching<TSignature> with a callback that records its arguments
ForEntitiesMatchingCall(TSignature) ==
    /\ Becomes(Mgr)
    /\ last' = [Plain("ForEntitiesMatching") EXCEPT
                    !.signature = TSignature,
                    !.calls = ForEntitiesMatching(Mgr, m_signatureBitsetsStorage,
                                                  TSignature)]
    /\ UNCHANGED <<owned, created, sinceRefresh>>

\* the calls that only read the manager: each records what it returned
IsAliveCall(entityIndex) ==
    /\ ValidIndex(Mgr, entityIndex)
    /\ Becomes(Mgr)
    /\ last' = [OnEntity("IsAlive", entityIndex) EXCEPT
                    !.answer = IsAlive(Mgr, entityIndex)]
    /\ UNCHANGED <<owned, created, sinceRefresh>>

HasComponentCall(TComponent, entityIndex) ==
    /\ ValidIndex(Mgr, entityIndex)
    /\ Becomes(Mgr)
    /\ last' = [OnComponent("HasComponent", TComponent, entityIndex) EXCEPT
                    !.answer = HasComponent(Mgr, TComponent, entityIndex)]
    /\ UNCHANGED <<owned, created, sinceRefresh>>

MatchesSignatureCall(TSignature, entityIndex) ==
    /\ ValidIndex(Mgr, entityIndex)
    /\ Becomes(Mgr)
    /\ last' = [OnEntity("MatchesSignature", entityIndex) EXCEPT
                    !.signature = TSignature,
                    !.answer = MatchesSignature(Mgr, m_signatureBitsetsStorage,
                                                TSignature, entityIndex)]
    /\ UNCHANGED <<owned, created, sinceRefresh>>

\* GetComponent<TComponent>(entityIndex), read once: assert(HasComponent) fails
\* or the value at the reference is read
GetComponentCall(TComponent, entityIndex) ==
    /\ ValidIndex(Mgr, entityIndex)
    /\ Becomes(Mgr)
    /\ last' = IF HasComponent(Mgr, TComponent, entityIndex)
               THEN [OnComponent("GetComponent", TComponent, entityIndex) EXCEPT
                        !.result = Deref(Mgr, GetComponent(Mgr, TComponent, entityIndex))]
               ELSE [OnComponent("GetComponent", TComponent, entityIndex) EXCEPT
                        !.assertion = "HasComponent"]
    /\ UNCHANGED <<owned, created, sinceRefresh>>

\* the operations that reach a record through GetEntity
HandleOps ==
    {"IsAlive", "Kill", "AddComponent", "HasComponent", "DeleteComponent",
     "GetComponent", "MatchesSignature"}

\* one of them called with an index that fails GetEntity's assertion: the
\* call ends there
RangeAssertionCall(op, entityIndex) ==
    /\ op \in HandleOps
    /\ ~ValidIndex(Mgr, entityIndex)
    /\ Becomes(Mgr)
    /\ last' = [OnEntity(op, entityIndex) EXCEPT !.assertion = "GetEntity"]
    /\ UNCHANGED <<owned, created, sinceRefresh>>

\* ForEntities with a callback that records its argument
ForEntitiesCall ==
    /\ Becomes(Mgr)
    /\ last' = [Plain("ForEntities") EXCEPT !.calls = ForEntities(Mgr)]
    /\ UNCHANGED <<owned, created, sinceRefresh>>

\* a failed assertion aborts the program
Running == last.assertion = ""

\* Spec: a fresh manager, up to MaxEntities entities, Health components with
\* any value
DataComponents == {"Health"}

Next ==
    \/ CreateIndexCall(MaxEntities)
    \/ \E h \in Handles(0) : KillCall(h)
    \/ ClearCall
    \/ RefreshCall
    \/ \E c \in DataComponents, h \in Handles(0), v \in Values : AddComponentCall(c, h, v)
    \/ \E c \in DataComponents, h \in Handles(0) : DeleteComponentCall(c, h)
    \/ \E c \in DataComponents, h \in Handles(0), v \in Values : WriteComponentCall(c, h, v)

Spec == Init /\ [][Next]_vars

\* SpecSig: a fresh manager, up to MaxSigEntities entities, components of
\* every kind, value-initialised as Main.cpp attaches them
NextSig ==
    \/ CreateIndexCall(MaxSigEntities)
    \/ \E h \in Handles(0) : KillCall(h)
    \/ RefreshCall
    \/ \E c \in Components, h \in Handles(0) : AddComponentCall(c, h, 0)
    \/ \E c \in Components, h \in Handles(0) : DeleteComponentCall(c, h)
    \/ \E s \in Signatures : ForEntitiesMatchingCall(s)

SpecSig == Init /\ [][NextSig]_vars

\* SpecCalls: a fresh manager, up to MaxCallEntities entities, every
\* operation, called with indices below and not below m_sizeNext, until an
\* assertion fails
CallHandles == 0..MaxCallEntities

NextCalls ==
    \/ Running /\ CreateIndexCall(MaxCallEntities)
    \/ Running /\ \E h \in CallHandles : KillCall(h)
    \/ Running /\ ClearCall
    \/ Running /\ RefreshCall
    \/ Running /\ \E c \in DataComponents, h \in CallHandles, v \in Values :
                        AddComponentCall(c, h, v)
    \/ Running /\ \E c \in DataComponents, h \in CallHandles : DeleteComponentCall(c, h)
    \/ Running /\ \E h \in CallHandles : IsAliveCall(h)
    \/ Running /\ \E c \in DataComponents, h \in CallHandles : HasComponentCall(c, h)
    \/ Running /\ \E c \in DataComponents, h \in CallHandles : GetComponentCall(c, h)
    \/ Running /\ \E s \in Signatures, h \in CallHandles : MatchesSignatureCall(s, h)
    \/ Running /\ \E op \in HandleOps, h \in CallHandles : RangeAssertionCall(op, h)
    \/ Running /\ ForEntitiesCall

SpecCalls == Init /\ [][NextCalls]_vars

\* SpecGrow: a manager one CreateIndex short of full, as n CreateIndex calls
\* on a fresh manager leave it; calls are made with the highest handles
\* CreateMany(m, n): m after n CreateIndex calls
RECURSIVE CreateMany(_, _)
CreateMany(m, n) ==
    IF n = 0 THEN m
    ELSE LET after == CreateIndex(m).m
         IN  IF after.sizeNext > m.sizeNext THEN CreateMany(after, n - 1) ELSE after

FillCount == DEFAULT_ENTITY_CAPACITY - 1

InitGrow ==
    /\ InitOf(CreateMany(Manager, FillCount), FillCount)

GrowHandles == Handles(DEFAULT_ENTITY_CAPACITY - Window)

NextGrow ==
    \/ CreateIndexCall(DEFAULT_ENTITY_CAPACITY + MaxGrown)
    \/ \E h \in GrowHandles : KillCall(h)
    \/ RefreshCall
    \/ \E c \in DataComponents, h \in GrowHandles, v \in Values : AddComponentCall(c, h, v)
    \/ \E c \in DataComponents, h \in GrowHandles : DeleteComponentCall(c, h)
    \/ \E c \in DataComponents, h \in GrowHandles, v \in Values : WriteComponentCall(c, h, v)

SpecGrow == InitGrow /\ [][NextGrow]_vars

-----------------------------------------------------------------------------
(* Properties *)

\* the manager value after the step
MgrNext ==
    [entities |-> m_entities',
     capacity |-> m_capacity',
     size |-> m_size',
     sizeNext |-> m_sizeNext',
     comp |-> m_componentStorage']

BitOf(TComponent) == GetComponentBit(TComponent)

\* the positions below n
Below(n) == 0..(n - 1)

\* C1: right after Refresh, with n the value m_sizeNext had before the call,
\* every record at a position below GetEntityCount() is alive and every
\* record at a position from GetEntityCount() up to n - 1 is dead.
C1_RefreshPartitions ==
    last.op = "Refresh" =>
        /\ \A p \in Below(GetEntityCount(Mgr)) : m_entities[p].alive
        /\ \A p \in GetEntityCount(Mgr)..(last.sizeNextBefore - 1) : ~m_entities[p].alive

\* a Refresh that swapped a record to the left and left dead records behind
C1_Witness ==
    /\ last.op = "Refresh"
    /\ 0 < m_size
    /\ m_size < last.sizeNextBefore
    /\ \E p \in Below(m_size) : m_entities[p].dataIndex # p

\* C2: right after Refresh, GetEntityCount() is the number of records below
\* m_sizeNext that were alive before the call, and m_size = m_sizeNext; when
\* only CreateIndex calls and no Kill were made on the manager since its
\* construction, the count is the number of those calls, growth included.
C2_RefreshCounts ==
    last.op = "Refresh" =>
        /\ GetEntityCount(Mgr) = last.aliveBefore
        /\ m_size = m_sizeNext
        /\ created.only => GetEntityCount(Mgr) = created.count

\* a Refresh after more creations than the default capacity holds, no Kill
C2_Witness ==
    /\ last.op = "Refresh"
    /\ created.only
    /\ created.count = DEFAULT_ENTITY_CAPACITY + 1
    /\ m_capacity > DEFAULT_ENTITY_CAPACITY
    /\ GetEntityCount(Mgr) = DEFAULT_ENTITY_CAPACITY + 1

\* how many of the positions hold a record with this dataIndex and bitset
PairCount(entities, positions, pair) ==
    Cardinality({p \in positions :
                    <<entities[p].dataIndex, entities[p].bitset>> = pair})

PairsOf(entities, positions) ==
    {<<entities[p].dataIndex, entities[p].bitset>> : p \in positions}

\* C3: Refresh moves whole records: the (dataIndex, bitset) pairs of the
\* records alive below m_sizeNext before the call are, with multiplicity,
\* those of the records below GetEntityCount() after it, and no component
\* value changes.
C3_RefreshMovesWholeRecords ==
    [][last'.op = "Refresh" =>
        LET before == {p \in Below(m_sizeNext) : m_entities[p].alive}
            after == Below(m_size')
        IN  /\ \A pair \in PairsOf(m_entities, before) \cup PairsOf(m_entities', after) :
                    PairCount(m_entities, before, pair) = PairCount(m_entities', after, pair)
            /\ m_componentStorage' = m_componentStorage]_vars

\* a Refresh that relocated an entity holding a component of value 1
C3_Witness ==
    /\ last.op = "Refresh"
    /\ \E p \in Below(m_size) :
        /\ m_entities[p].dataIndex # p
        /\ HasComponent(Mgr, "Health", p)
        /\ Deref(Mgr, GetComponent(Mgr, "Health", p)) = 1

\* C4: a CreateIndex that grows the table leaves every record below the old
\* capacity and every component value at a slot below the old capacity as
\* they were, so GetComponent of an older entity reads what was written.
C4_GrowthKeepsData ==
    [][(last'.op = "CreateIndex" /\ m_capacity' # m_capacity) =>
        /\ \A p \in Below(m_capacity) : m_entities'[p] = m_entities[p]
        /\ \A c \in Components, i \in Below(m_capacity) :
                m_componentStorage'[c][i] = m_componentStorage[c][i]
        /\ \A c \in Components, h \in Below(m_sizeNext) :
                HasComponent(Mgr, c, h) =>
                    /\ HasComponent(MgrNext, c, h)
                    /\ Deref(MgrNext, GetComponent(MgrNext, c, h))
                        = Deref(Mgr, GetComponent(Mgr, c, h))]_vars

\* the growing CreateIndex, with an older entity holding a component of value 1
C4_Witness ==
    /\ last.op = "CreateIndex"
    /\ last.grew
    /\ m_capacity = (DEFAULT_ENTITY_CAPACITY + 10) * 2
    /\ \E h \in Below(last.result) :
        /\ HasComponent(Mgr, "Health", h)
        /\ Deref(Mgr, GetComponent(Mgr, "Health", h)) = 1

\* the record at h keeps its bitset and the values at its slot in the step
KeepsMaskAndValues(h) ==
    /\ m_entities'[h].bitset = m_entities[h].bitset
    /\ \A c \in Components :
        m_componentStorage'[c][m_entities[h].dataIndex]
            = m_componentStorage[c][m_entities[h].dataIndex]

\* C5: CreateIndex (growing or not), Kill, AddComponent and DeleteComponent
\* leave the dataIndex of the record at every handle h below m_sizeNext as it
\* is, and leave h's bitset and component values as they are unless the call
\* is an AddComponent or DeleteComponent on h itself.
C5_HandleStableUntilRefresh ==
    [][/\ last'.op \in {"CreateIndex", "Kill", "AddComponent", "DeleteComponent"} =>
            \A h \in Below(m_sizeNext) :
                m_entities'[h].dataIndex = m_entities[h].dataIndex
       /\ last'.op \in {"CreateIndex", "Kill"} =>
            \A h \in Below(m_sizeNext) : KeepsMaskAndValues(h)
       /\ last'.op \in {"AddComponent", "DeleteComponent"} =>
            \A h \in Below(m_sizeNext) \ {last'.entityIndex} : KeepsMaskAndValues(h)]_vars

\* an AddComponent on a relocated entity, beside another relocated entity
\* that holds a component of value 1
C5_Witness ==
    /\ last.op = "AddComponent"
    /\ \E h, e \in Below(m_sizeNext) :
        /\ h # e
        /\ m_entities[h].dataIndex = e
        /\ m_entities[e].dataIndex = h
        /\ HasComponent(Mgr, "Health", h)
        /\ Deref(Mgr, GetComponent(Mgr, "Health", h)) = 1
        /\ HasComponent(Mgr, "Health", e)
        /\ Deref(Mgr, GetComponent(Mgr, "Health", e)) = 0

\* the step changes no bit but TComponent's of the record at h
OnlyBitChanged(TComponent, h) ==
    /\ \A p \in Below(m_capacity) \ {h} : m_entities'[p].bitset = m_entities[p].bitset
    /\ m_entities'[h].bitset \ {BitOf(TComponent)}
        = m_entities[h].bitset \ {BitOf(TComponent)}

\* C6: for every handle h below m_sizeNext and kind K, HasComponent<K>(h) is
\* true right after AddComponent<K>(h) and false right after
\* DeleteComponent<K>(h), and each call changes bit K of h's bitset only.
C6_AddThenHasDeleteThenHasNot ==
    [][/\ last'.op = "AddComponent" =>
            /\ HasComponent(MgrNext, last'.component, last'.entityIndex)
            /\ OnlyBitChanged(last'.component, last'.entityIndex)
       /\ last'.op = "DeleteComponent" =>
            /\ ~HasComponent(MgrNext, last'.component, last'.entityIndex)
            /\ OnlyBitChanged(last'.component, last'.entityIndex)]_vars

\* a DeleteComponent that left the entity with another kind, beside an entity
\* with components
C6_Witness ==
    /\ last.op = "DeleteComponent"
    /\ \E h, e \in Below(m_sizeNext) :
        /\ h # e
        /\ Cardinality(m_entities[h].bitset) = ComponentCount - 1
        /\ m_entities[e].bitset # {}

\* C7: MatchesSignature<S>(h) is true exactly when HasComponent<K>(h) is true
\* for every kind K of S's list.
C7_MatchesIffHasAll ==
    \A s \in Signatures, h \in Below(m_sizeNext) :
        MatchesSignature(Mgr, m_signatureBitsetsStorage, s, h)
            <=> \A i \in 1..Len(s) : HasComponent(Mgr, s[i], h)

\* an entity with all three kinds matches SignatureVelocity, beside one with
\* Circle alone that does not
C7_Witness ==
    \E h, e \in Below(m_sizeNext) :
        /\ m_entities[h].bitset = {BitOf("Health"), BitOf("Circle"), BitOf("Input")}
        /\ MatchesSignature(Mgr, m_signatureBitsetsStorage, SignatureVelocity, h)
        /\ m_entities[e].bitset = {BitOf("Circle")}
        /\ ~MatchesSignature(Mgr, m_signatureBitsetsStorage, SignatureVelocity, e)

\* what the occupant of the slot attached of this kind and did not delete
Attached(slot, TComponent) == {o \in owned : o[1] = slot /\ o[2] = TComponent}

\* C8: bit K of a record is set exactly when AddComponent<K> was applied to
\* the entity since CreateIndex activated it, with no DeleteComponent<K>
\* after; the value at (K, dataIndex) is then the one that entity wrote last.
C8_BitIffAttached ==
    /\ \A p \in Below(m_capacity), c \in Components :
            BitOf(c) \in m_entities[p].bitset
                => Attached(m_entities[p].dataIndex, c) # {}
    /\ \A o \in owned, p \in Below(m_capacity) :
            m_entities[p].dataIndex = o[1] =>
                /\ BitOf(o[2]) \in m_entities[p].bitset
                /\ StorageGetComponent(m_componentStorage, o[2], o[1]) = o[3]

\* CreateIndex activated a relocated record whose slot still holds the value
\* 1 of an earlier entity
C8_Witness ==
    /\ last.op = "CreateIndex"
    /\ LET p == last.result
       IN  /\ m_entities[p].dataIndex # p
           /\ m_entities[p].bitset = {}
           /\ StorageGetComponent(m_componentStorage, "Health", m_entities[p].dataIndex) = 1

\* C9: ForEntitiesMatching<S> calls the callback once for each position below
\* GetEntityCount() whose bitset includes S's bitset, in increasing order of
\* position, and for no other, with references into the arrays at the
\* record's dataIndex.
C9_VisitsMatchingInOrder ==
    last.op = "ForEntitiesMatching" =>
        LET calls == last.calls
            sigBits == GetSignatureBitset(m_signatureBitsetsStorage, last.signature)
            matching == {p \in Below(GetEntityCount(Mgr)) :
                            sigBits \subseteq m_entities[p].bitset}
        IN  /\ \A i, j \in 1..Len(calls) :
                    i < j => calls[i].entityIndex < calls[j].entityIndex
            /\ {calls[i].entityIndex : i \in 1..Len(calls)} = matching
            /\ \A i \in 1..Len(calls) :
                    \A k \in 1..Len(calls[i].components) :
                        calls[i].components[k][2]
                            = m_entities[calls[i].entityIndex].dataIndex

\* two relocated entities visited, one with a kind more than the signature asks
C9_Witness ==
    /\ last.op = "ForEntitiesMatching"
    /\ last.signature = SignatureVelocity
    /\ Len(last.calls) = 2
    /\ \A i \in 1..2 :
        m_entities[last.calls[i].entityIndex].dataIndex # last.calls[i].entityIndex
    /\ \E i \in 1..2 : HasComponent(Mgr, "Health", last.calls[i].entityIndex)

\* C10, as claimed: the i-th component argument of the callback is the i-th
\* kind of the signature's declaration list.
C10_ArgumentsInDeclaredOrder ==
    last.op = "ForEntitiesMatching" =>
        \A n \in 1..Len(last.calls) :
            /\ Len(last.calls[n].components) = Len(last.signature)
            /\ \A i \in 1..Len(last.signature) :
                    last.calls[n].components[i][1] = last.signature[i]

\* C10, amended: the callback gets one reference per kind of the signature,
\* in the reverse of the declared order: the i-th component argument is the
\* i-th kind from the end of the declaration list.
C10_ArgumentsInReverseDeclaredOrder ==
    last.op = "ForEntitiesMatching" =>
        \A n \in 1..Len(last.calls) :
            /\ Len(last.calls[n].components) = Len(last.signature)
            /\ \A i \in 1..Len(last.signature) :
                    last.calls[n].components[i][1]
                        = last.signature[Len(last.signature) + 1 - i]

\* a call of the callback for SignatureVelocity = <Circle, Input>: Input first
C10_Witness ==
    /\ last.op = "ForEntitiesMatching"
    /\ last.signature = SignatureVelocity
    /\ Len(last.calls) >= 1
    /\ last.calls[1].components[1][1] = "Input"
    /\ last.calls[1].components[2][1] = "Circle"

C12_ClearEmptiesTable ==
    [][/\ last'.op = "Clear" =>
            /\ GetEntityCount(MgrNext) = 0
            /\ m_sizeNext' = 0
            /\ \A p \in Below(m_capacity') :
                    /\ ~m_entities'[p].alive
                    /\ m_entities'[p].bitset = {}
            /\ m_capacity' = m_capacity
            /\ DOMAIN m_entities' = Below(m_capacity)
            /\ CreateIndex(MgrNext).freeIndex = 0
       /\ (last.op = "Clear" /\ last'.op = "CreateIndex") => last'.result = 0]_vars

\* a Clear of a manager that held three entities, one with a component of
\* value 1 at slot 2
C12_Witness ==
    /\ last.op = "Clear"
    /\ ~created.only
    /\ StorageGetComponent(m_componentStorage, "Health", MaxEntities - 1) = 1
    /\ m_sizeNext = 0

\* C13: CreateIndex returns the value m_sizeNext had before the call, leaves
\* the record there alive with an empty bitset and m_sizeNext one higher; the
\* k-th CreateIndex since the last Refresh or Clear returns the count that
\* call left plus k - 1, so the first one after a Refresh returns
\* GetEntityCount().
C13_CreateIndexReturnsNextFree ==
    [][last'.op = "CreateIndex" =>
        /\ last'.result = m_sizeNext
        /\ m_sizeNext' = m_sizeNext + 1
        /\ m_entities'[last'.result].alive
        /\ m_entities'[last'.result].bitset = {}
        /\ \A c \in Components : ~HasComponent(MgrNext, c, last'.result)
        /\ last'.result = GetEntityCount(Mgr) + sinceRefresh
        /\ last.op = "CreateIndex" => last'.result = last.result + 1
        /\ last.op = "Refresh" => last'.result = GetEntityCount(Mgr)]_vars

\* the first CreateIndex after a Refresh took the leftmost dead position,
\* above the default capacity, whose record has the slot and the value 1 of a
\* killed entity
C13_Witness ==
    /\ last.op = "CreateIndex"
    /\ last.result = GetEntityCount(Mgr)
    /\ last.result = DEFAULT_ENTITY_CAPACITY
    /\ m_entities[last.result].dataIndex < last.result
    /\ m_entities[last.result].alive
    /\ ~HasComponent(Mgr, "Health", last.result)
    /\ Deref(Mgr, <<"Health", m_entities[last.result].dataIndex>>) = 1

\* C14: m_capacity is DEFAULT_ENTITY_CAPACITY after construction; the table
\* and every component array have m_capacity elements; CreateIndex changes
\* m_capacity exactly when m_sizeNext = m_capacity before the call, to
\* (m_capacity + 10) * 2, which is larger; Kill, AddComponent,
\* DeleteComponent, Refresh and Clear leave it as it is.
C14_CapacityGrowsOnlyWhenFull ==
    /\ [](/\ last.op = "Manager" => m_capacity = DEFAULT_ENTITY_CAPACITY
          /\ DOMAIN m_entities = Below(m_capacity)
          /\ \A c \in Components : DOMAIN m_componentStorage[c] = Below(m_capacity)
          /\ Clear(Mgr).capacity = m_capacity
          /\ DOMAIN Clear(Mgr).entities = Below(m_capacity))
    /\ [][/\ last'.op = "CreateIndex" =>
               /\ (m_capacity' # m_capacity) <=> (m_sizeNext = m_capacity)
               /\ (m_capacity' # m_capacity) =>
                       /\ m_capacity' = (m_capacity + 10) * 2
                       /\ m_capacity' > m_capacity
          /\ last'.op # "CreateIndex" => m_capacity' = m_capacity
          /\ m_capacity' >= m_capacity]_vars

\* the table grew and a later Refresh left fewer entities than the default
\* capacity: the capacity stays
C14_Witness ==
    /\ last.op = "Refresh"
    /\ m_capacity = (DEFAULT_ENTITY_CAPACITY + 10) * 2
    /\ m_sizeNext < DEFAULT_ENTITY_CAPACITY

\* C16: CreateIndex (growing or not), Kill, AddComponent and DeleteComponent
\* leave GetEntityCount() as it is: a created entity is not counted and a
\* killed one is still counted, until Refresh or Clear.
C16_CountChangesOnlyOnRefreshOrClear ==
    [][last'.op \in {"CreateIndex", "Kill", "AddComponent", "DeleteComponent",
                     "WriteComponent"}
            => GetEntityCount(MgrNext) = GetEntityCount(Mgr)]_vars

\* a Kill of a counted entity above the default capacity, beside a created
\* entity that is not counted
C16_Witness ==
    /\ last.op = "Kill"
    /\ last.entityIndex < GetEntityCount(Mgr)
    /\ last.entityIndex >= DEFAULT_ENTITY_CAPACITY - Window
    /\ ~m_entities[last.entityIndex].alive
    /\ m_sizeNext > GetEntityCount(Mgr)
    /\ m_entities[m_sizeNext - 1].alive

\* C15: a call of IsAlive, Kill, AddComponent, HasComponent, DeleteComponent,
\* GetComponent or MatchesSignature fails GetEntity's assertion exactly when
\* its index is not below m_sizeNext, and then leaves the manager as it is.
C15_RangeAssertion ==
    [][last'.op \in HandleOps =>
        /\ (last'.assertion = "GetEntity") <=> (last'.entityIndex >= m_sizeNext)
        /\ last'.assertion = "GetEntity" =>
                /\ MgrNext = Mgr
                /\ last'.answer = FALSE
                /\ last'.result = 0]_vars

\* AddComponent with the handle 1 of an entity that a Refresh moved to
\* position 0, lowering m_sizeNext to 1: the assertion fails
C15_Witness ==
    /\ last.op = "AddComponent"
    /\ last.assertion = "GetEntity"
    /\ last.entityIndex = 1
    /\ m_sizeNext = 1
    /\ m_entities[0].dataIndex = 1
    /\ m_entities[0].alive

\* C17, as claimed: ForEntities calls the callback for every position whose
\* record is alive and for no position whose record is dead.
C17_ForEntitiesVisitsAlive ==
    last.op = "ForEntities" =>
        {last.calls[i].entityIndex : i \in 1..Len(last.calls)}
            = {p \in Below(m_capacity) : m_entities[p].alive}

\* C18: GetComponent<K>(h) with h below m_sizeNext fails its assertion
\* exactly when bit K of h's bitset is unset, which is when the entity has
\* attached no K since its creation or deleted it; otherwise it gives the
\* value at (K, dataIndex of the record at h), the one the entity wrote last;
\* the manager is left as it is.
C18_GetComponentAssertsHas ==
    [][(last'.op = "GetComponent" /\ last'.entityIndex < m_sizeNext) =>
        LET h == last'.entityIndex
            K == last'.component
            slot == m_entities[h].dataIndex
        IN  /\ (last'.assertion = "HasComponent") <=> (BitOf(K) \notin m_entities[h].bitset)
            /\ (last'.assertion = "HasComponent") <=> (Attached(slot, K) = {})
            /\ last'.assertion = "" =>
                    /\ last'.result = m_componentStorage[K][slot]
                    /\ \A o \in Attached(slot, K) : last'.result = o[3]
            /\ MgrNext = Mgr]_vars

\* GetComponent read the value 1 of an entity that a Refresh had moved, whose
\* slot differs from its handle
C18_Witness ==
    /\ last.op = "GetComponent"
    /\ last.assertion = ""
    /\ last.result = 1
    /\ m_entities[last.entityIndex].dataIndex # last.entityIndex
    /\ StorageGetComponent(m_componentStorage, last.component, last.entityIndex) = 0

\* the bits of the kinds of a signature's list
KindBits(TSignature) ==
    {k \in 0..(ComponentCount - 1) :
        \E j \in 1..Len(TSignature) : TSignature[j] = ComponentList[k + 1]}

\* C19: the id and the bit of a component kind is its position in
\* ComponentList and the id of a signature its position in SignatureList
\* (Health 0, Circle 1, Input 2; SignatureVelocity 0, SignatureLife 1); in
\* every state the stored bitset of a signature has the bits of the kinds of
\* its list and no other (SignatureVelocity "110", SignatureLife "001").
C19_IdsAndSignatureBitsets ==
    /\ \A i \in 1..Len(ComponentList) :
            /\ GetComponentId(ComponentList[i]) = i - 1
            /\ GetComponentBit(ComponentList[i]) = i - 1
    /\ \A i \in 1..Len(SignatureList) : GetSignatureId(SignatureList[i]) = i - 1
    /\ \A s \in Signatures :
            GetSignatureBitset(m_signatureBitsetsStorage, s) = KindBits(s)
    /\ GetSignatureBitset(m_signatureBitsetsStorage, SignatureVelocity) = {1, 2}
    /\ GetSignatureBitset(m_signatureBitsetsStorage, SignatureLife) = {0}
    /\ DOMAIN m_signatureBitsetsStorage = 0..(SignatureCount - 1)

\* the bitsets after a run of calls: a Kill or a Clear among them, two
\* CreateIndex since the last Refresh or Clear, an AddComponent last
C19_Witness ==
    /\ last.op = "AddComponent"
    /\ last.assertion = ""
    /\ ~created.only
    /\ sinceRefresh = MaxCallEntities
    /\ GetEntityCount(Mgr) = 0
    /\ GetSignatureBitset(m_signatureBitsetsStorage, SignatureVelocity)
            = {BitOf("Circle"), BitOf("Input")}

\* C20: DeleteComponent<K>(h) changes the alive flag of no record and leaves
\* HasComponent<K>(h) false and h matching no signature whose list has K; a
\* Refresh keeps every alive record with an empty bitset below the count.
C20_DeleteComponentKeepsAlive ==
    [][/\ (last'.op = "DeleteComponent" /\ last'.assertion = "") =>
            LET h == last'.entityIndex
                K == last'.component
            IN  /\ \A p \in Below(m_capacity) : m_entities'[p].alive = m_entities[p].alive
                /\ ~HasComponent(MgrNext, K, h)
                /\ \A s \in Signatures :
                        (\E i \in 1..Len(s) : s[i] = K) =>
                            ~MatchesSignature(MgrNext, m_signatureBitsetsStorage, s, h)
       /\ last'.op = "Refresh" =>
            \A p \in Below(m_sizeNext) :
                (m_entities[p].alive /\ m_entities[p].bitset = {}) =>
                    \E q \in Below(GetEntityCount(MgrNext)) :
                        m_entities'[q] = m_entities[p]]_vars

\* a Refresh counted two entities, one of which attached Health with value 1
\* and deleted it (no Kill and no Clear was called, so the value is its own)
C20_Witness ==
    /\ last.op = "Refresh"
    /\ created.only
    /\ GetEntityCount(Mgr) = MaxCallEntities
    /\ \E q \in Below(GetEntityCount(Mgr)) :
        /\ m_entities[q].alive
        /\ m_entities[q].bitset = {}
        /\ ~MatchesSignature(Mgr, m_signatureBitsetsStorage, SignatureLife, q)
        /\ Deref(Mgr, <<"Health", m_entities[q].dataIndex>>) = 1

\* the step changes the alive flag of the record at position p from false to
\* true
Activated(p) == ~m_entities[p].alive /\ m_entities'[p].alive

\* the step exchanges the records at positions p and q
Swapped(p, q) ==
    /\ m_entities'[p] = m_entities[q]
    /\ m_entities'[q] = m_entities[p]

\* C21, as claimed: no operation but Refresh changes the dataIndex of the
\* record at any position.
C21_DataIndexChangesOnlyInRefresh ==
    [][last'.op # "Refresh" =>
        \A p \in Below(m_capacity) :
            m_entities'[p].dataIndex = m_entities[p].dataIndex]_vars

\* C21, amended: the record at position p is given the dataIndex p when the
\* position is grown into; afterwards the dataIndex at a position changes
\* only in Refresh, where the whole record is exchanged with that of another
\* position, and in Clear, which sets the dataIndex at every position p back
\* to p.
C21_DataIndexChangesOnlyInRefreshOrClear ==
    /\ [](last.op = "Manager" =>
            \A p \in Below(m_capacity) : m_entities[p].dataIndex = p)
    /\ [][/\ last'.op \notin {"Refresh", "Clear"} =>
                \A p \in Below(m_capacity) :
                    m_entities'[p].dataIndex = m_entities[p].dataIndex
          /\ \A p \in Below(m_capacity') \ Below(m_capacity) :
                    m_entities'[p].dataIndex = p
          /\ last'.op = "Refresh" =>
                \A p \in Below(m_capacity) :
                    m_entities'[p] # m_entities[p] =>
                        \E q \in Below(m_sizeNext) \ {p} : Swapped(p, q)
          /\ last'.op = "Clear" =>
                \A p \in Below(m_capacity) : m_entities'[p].dataIndex = p]_vars

\* a Refresh exchanged the records at positions 0 and 1: the dead one, with
\* its bitset, now lies at 1 with dataIndex 0
C21_Witness ==
    /\ last.op = "Refresh"
    /\ m_entities[0].dataIndex = 1
    /\ m_entities[1].dataIndex = 0
    /\ ~m_entities[1].alive
    /\ m_entities[1].bitset # {}

\* C22, as claimed: Kill(h) makes IsAlive(h) false and changes nothing else,
\* and the alive flag at a position goes from false to true only in
\* CreateIndex.
C22_ActivatedOnlyByCreateIndex ==
    [][/\ (last'.op = "Kill" /\ last'.assertion = "") =>
            /\ ~IsAlive(MgrNext, last'.entityIndex)
            /\ MgrNext = Kill(Mgr, last'.entityIndex)
       /\ \A p \in Below(m_capacity) : Activated(p) => last'.op = "CreateIndex"]_vars

\* C22, amended: Kill(h) makes IsAlive(h) false at once and leaves the
\* position, dataIndex, bitset and component values of the record, and every
\* other record, as they are; CreateIndex activates position m_sizeNext and no
\* position below it; Kill, AddComponent, DeleteComponent and Clear activate
\* none; in Refresh the alive flag at a position becomes true only by an
\* alive record from a position to its right being swapped into it.
C22_DestructionIsDeferred ==
    [][/\ (last'.op = "Kill" /\ last'.assertion = "") =>
            LET h == last'.entityIndex
            IN  /\ ~IsAlive(MgrNext, h)
                /\ m_entities'[h].dataIndex = m_entities[h].dataIndex
                /\ m_entities'[h].bitset = m_entities[h].bitset
                /\ \A p \in Below(m_capacity) \ {h} : m_entities'[p] = m_entities[p]
                /\ m_componentStorage' = m_componentStorage
                /\ m_sizeNext' = m_sizeNext
       /\ last'.op = "CreateIndex" =>
            \A p \in Below(m_capacity') : Activated(p) => p = m_sizeNext
       /\ last'.op \notin {"CreateIndex", "Refresh"} =>
            \A p \in Below(m_capacity) : ~Activated(p)
       /\ last'.op = "Refresh" =>
            \A p \in Below(m_capacity) :
                Activated(p) =>
                    \E q \in Below(m_sizeNext) :
                        /\ q > p
                        /\ m_entities[q].alive
                        /\ Swapped(p, q)]_vars

\* a Kill of an entity with a component of value 1, beside an alive entity:
\* the record is dead and keeps its bitset and value; a CreateIndex followed
\* and left it dead
C22_Witness ==
    /\ last.op = "CreateIndex"
    /\ last.result = MaxCallEntities - 1
    /\ ~created.only
    /\ ~m_entities[0].alive
    /\ HasComponent(Mgr, "Health", 0)
    /\ Deref(Mgr, GetComponent(Mgr, "Health", 0)) = 1
    /\ GetEntityCount(Mgr) = 0

\* C23: every record at a position from m_sizeNext up to m_capacity - 1 is
\* not alive, so the record CreateIndex is about to activate (after
\* GrowIfNeeded, at position m_sizeNext) satisfies assert(!IsAlive(freeIndex)).
C23_RecordsAboveSizeNextAreDead ==
    /\ \A p \in m_sizeNext..(m_capacity - 1) : ~m_entities[p].alive
    /\ ~GrowIfNeeded(Mgr).entities[m_sizeNext].alive

\* a Refresh moved a killed entity's record, with its bitset, out of the
\* counted positions, and CreateIndex then activated it at position 1
C23_Witness ==
    /\ last.op = "CreateIndex"
    /\ last.result = 1
    /\ m_sizeNext = 2
    /\ m_entities[1].dataIndex = 0
    /\ m_entities[0].dataIndex = 1
    /\ m_entities[1].alive
    /\ \A p \in m_sizeNext..(m_capacity - 1) : ~m_entities[p].alive

\* C24: ArrangeAliveEntitiesToLeft is called only with m_sizeNext >= 1; in the
\* call, iA is never decremented at 0 (the unsigned cursor does not wrap),
\* every record read lies in [0, m_sizeNext), and at each swap the record at
\* iA is alive, the record at iD is dead and iD < iA.
C24_CursorsStayInsideTheTable ==
    [][last'.op = "Refresh" =>
        LET calls == ArrangeCalls(Mgr)
        IN  /\ Len(calls) = (IF m_sizeNext >= 1 THEN 1 ELSE 0)
            /\ \A c \in DOMAIN calls :
                  LET run == calls[c]
                  IN  /\ m_sizeNext >= 1
                      /\ run.reads \subseteq Below(m_sizeNext)
                      /\ SIZE_MAX \notin run.reads
                      /\ \A s \in DOMAIN run.swaps :
                            /\ run.swaps[s].aliveAtA
                            /\ run.swaps[s].deadAtD
                            /\ run.swaps[s].iD < run.swaps[s].iA
                            /\ run.swaps[s].iA \in Below(m_sizeNext)
                      /\ run.entities = m_entities'
                      /\ run.result = m_sizeNext']_vars

\* a Refresh of three records, dead, alive, alive: one swap of positions 0
\* and 2, after which iA is decremented to 1 and iD incremented to 1
C24_Witness ==
    /\ last.op = "Refresh"
    /\ last.sizeNextBefore = 3
    /\ last.aliveBefore = 2
    /\ m_entities[0].dataIndex = 2
    /\ m_entities[1].dataIndex = 1
    /\ m_entities[2].dataIndex = 0
    /\ m_size = 2

\* C25: Refresh terminates: the two cursors of ArrangeAliveEntitiesToLeft move
\* at most m_sizeNext times in total before the loop returns, whatever the
\* pattern of alive and dead records, and the call returns the state Refresh
\* leaves.
C25_RefreshTerminates ==
    [][last'.op = "Refresh" =>
        \A c \in DOMAIN ArrangeCalls(Mgr) :
            LET run == ArrangeCalls(Mgr)[c]
            IN  /\ run.moves \in 0..m_sizeNext
                /\ run.result \in 0..m_sizeNext
                /\ run.entities = m_entities'
                /\ run.result = m_size']_vars

\* a Refresh of three records that are all dead: iD stays at 0 and iA walks
\* down to it
C25_Witness ==
    /\ last.op = "Refresh"
    /\ last.sizeNextBefore = 3
    /\ last.aliveBefore = 0
    /\ m_sizeNext = 0
    /\ \E p \in Below(3) : m_entities[p].bitset # {}

\* the entity indices the callback of an iteration is called with
Visited(calls) == {calls[k].entityIndex : k \in DOMAIN calls}

\* C26: m_size <= m_sizeNext <= m_capacity in every state, so ForEntities and
\* ForEntitiesMatching hand GetEntity only indices below m_sizeNext, and every
\* record accessed lies below m_capacity.
C26_SizeOrdering ==
    /\ m_size <= m_sizeNext
    /\ m_sizeNext <= m_capacity
    /\ Visited(ForEntities(Mgr)) = Below(m_size)
    /\ \A TSignature \in Signatures :
          Visited(ForEntitiesMatching(Mgr, m_signatureBitsetsStorage, TSignature))
              \subseteq Below(m_size)
    /\ \A index \in Below(m_size) :
          /\ ValidIndex(Mgr, index)
          /\ index \in DOMAIN m_entities
          /\ \A c \in Components : GetEntity(Mgr, index).dataIndex \in DOMAIN m_componentStorage[c]

\* the table is full and every position is counted: the iteration reaches the
\* last position below m_capacity
C26_Witness ==
    /\ m_size = DEFAULT_ENTITY_CAPACITY
    /\ m_sizeNext = m_capacity
    /\ m_capacity = DEFAULT_ENTITY_CAPACITY
    /\ (DEFAULT_ENTITY_CAPACITY - 1) \in Visited(ForEntities(Mgr))

\* C27: the dataIndex values of the records at positions [0, m_capacity) are a
\* permutation of [0, m_capacity): no two records have the same slot and no
\* slot is without a record.
C27_DataIndexIsPermutation ==
    /\ DOMAIN m_entities = Below(m_capacity)
    /\ {m_entities[p].dataIndex : p \in Below(m_capacity)} = Below(m_capacity)
    /\ \A p, q \in Below(m_sizeNext + Window) \cap Below(m_capacity) :
          m_entities[p].dataIndex = m_entities[q].dataIndex => p = q

\* after growth to 220 a Refresh exchanged the last record of the old table
\* with the first of the new part
C27_Witness ==
    /\ m_capacity = (DEFAULT_ENTITY_CAPACITY + 10) * 2
    /\ m_entities[DEFAULT_ENTITY_CAPACITY - 1].dataIndex = DEFAULT_ENTITY_CAPACITY
    /\ m_entities[DEFAULT_ENTITY_CAPACITY].dataIndex = DEFAULT_ENTITY_CAPACITY - 1

\* C28: Refresh is idempotent: a Refresh that directly follows a Refresh
\* leaves the record table, the counters and the component storage as they
\* are.
C28_RefreshIsIdempotent ==
    [][(last.op = "Refresh" /\ last'.op = "Refresh") =>
        /\ MgrNext = Mgr
        /\ m_signatureBitsetsStorage' = m_signatureBitsetsStorage]_vars

\* a second Refresh in a row, after the first had moved an alive record to
\* position 0 over a dead one that keeps its bitset
C28_Witness ==
    /\ last.op = "Refresh"
    /\ last.repeated
    /\ m_size = 1
    /\ m_entities[0].dataIndex = 1
    /\ ~m_entities[1].alive
    /\ m_entities[1].bitset # {}

\* C29: Refresh does not move an alive record that already lies below the new
\* count; an alive record that is moved comes from a position at or above the
\* new count and goes to a position below it that held a dead record.
C29_RefreshKeepsAlivePrefix ==
    [][last'.op = "Refresh" =>
        /\ \A p \in Below(m_size') :
              m_entities[p].alive => m_entities'[p] = m_entities[p]
        /\ \A p \in Below(m_sizeNext) :
              (m_entities[p].alive /\ m_entities'[p] # m_entities[p]) =>
                  /\ p >= m_size'
                  /\ \E q \in Below(m_size') :
                        /\ ~m_entities[q].alive
                        /\ m_entities'[q] = m_entities[p]]_vars

\* a Refresh of three records, alive, dead, alive: the record at 0 stayed and
\* the one at 2 went to position 1
C29_Witness ==
    /\ last.op = "Refresh"
    /\ last.sizeNextBefore = 3
    /\ last.aliveBefore = 2
    /\ m_size = 2
    /\ m_entities[0].dataIndex = 0
    /\ m_entities[1].dataIndex = 2
    /\ m_entities[2].dataIndex = 1

====
